---------------------------- MODULE Spec2Model ----------------------------
(***************************************************************************)
(* Model of the flower-shop analytics core (backend-python):                *)
(*   analytics.py    get_sales_analytics, predict_demand                    *)
(*   recommender.py  get_recommendations                                    *)
(*                                                                          *)
(* A data frame is a sequence of rows (records).  Text is a sequence of     *)
(* character codes, so that ordering, lower-casing and substring search     *)
(* are computed.  A timestamp is a number of ticks (TicksPerDay per day)    *)
(* since 1970-01-01; a calendar date is a day number since 1970-01-01.      *)
(***************************************************************************)
EXTENDS Integers, Sequences, FiniteSets, TLC

VARIABLES df_orders, df_order_items, df_flowers, now, called, reads, result

vars == <<df_orders, df_order_items, df_flowers, now, called, reads, result>>

(***************************************************************************)
(* Bounds of the model.                                                     *)
(***************************************************************************)
TicksPerDay == 2
MaxDrift == 1
MaxItems == 2
MaxOrders == 3

Users == {1, 2}
Quantities == {1, 2}
Prices == {1, 2}

(***************************************************************************)
(* Program constants.                                                       *)
(***************************************************************************)
TOP_CUSTOMERS == 5
TOP_FLOWERS == 3
WINDOW_DAYS == 7
FORECAST_DAYS == 7
MIN_POINTS == 2

None == << -1 >>

(***************************************************************************)
(* Generic helpers.                                                         *)
(***************************************************************************)
Range(s) == {s[i] : i \in 1..Len(s)}

Min2(a, b) == IF a <= b THEN a ELSE b

RECURSIVE SumSeq(_)
SumSeq(s) == IF s = <<>> THEN 0 ELSE Head(s) + SumSeq(Tail(s))

Col(df, c) == [i \in 1..Len(df) |-> df[i][c]]

\* str < str as Python compares it: code point by code point, a proper prefix first.
RECURSIVE StrLess(_, _)
StrLess(a, b) ==
    IF b = <<>> THEN FALSE
    ELSE IF a = <<>> THEN TRUE
    ELSE IF Head(a) /= Head(b) THEN Head(a) < Head(b)
    ELSE StrLess(Tail(a), Tail(b))

(***************************************************************************)
(* Calendar: proleptic Gregorian, as datetime.date and pandas use.          *)
(***************************************************************************)
DaysFromCivil(y, m, d) ==
    LET yy  == IF m <= 2 THEN y - 1 ELSE y
        era == yy \div 400
        yoe == yy - era * 400
        mp  == IF m > 2 THEN m - 3 ELSE m + 9
        doy == (153 * mp + 2) \div 5 + d - 1
        doe == yoe * 365 + yoe \div 4 - yoe \div 100 + doy
    IN  era * 146097 + doe - 719468

CivilFromDays(z) ==
    LET zz  == z + 719468
        era == zz \div 146097
        doe == zz - era * 146097
        yoe == (doe - doe \div 1460 + doe \div 36524 - doe \div 146096) \div 365
        doy == doe - (365 * yoe + yoe \div 4 - yoe \div 100)
        mp  == (5 * doy + 2) \div 153
        d   == doy - (153 * mp + 2) \div 5 + 1
        m   == IF mp < 10 THEN mp + 3 ELSE mp - 9
        y   == yoe + era * 400 + (IF m <= 2 THEN 1 ELSE 0)
    IN  [year |-> y, month |-> m, day |-> d]

\* Timestamp.date(), .month, .year of a tick count.
DateOf(t) == t \div TicksPerDay
MonthOf(t) == CivilFromDays(DateOf(t)).month
YearOf(t) == CivilFromDays(DateOf(t)).year

\* The text form a column of strings stores: the calendar fields and the time of day.
FormatTs(t) ==
    LET c == CivilFromDays(DateOf(t))
    IN  [kind |-> "str", year |-> c.year, month |-> c.month, day |-> c.day,
         tod |-> t % TicksPerDay]

Ts(t) == [kind |-> "datetime64", t |-> t]

\* pd.to_datetime of one stored value: text is parsed, a timestamp is kept.
ToDatetime(v) ==
    IF v.kind = "str"
    THEN Ts(DaysFromCivil(v.year, v.month, v.day) * TicksPerDay + v.tod)
    ELSE v

(***************************************************************************)
(* The wall clock.  datetime.now() returns the clock's value; the clock may *)
(* advance between two reads made by one call.                              *)
(***************************************************************************)
ClockDays ==
    {DaysFromCivil(2023, 12, 31), DaysFromCivil(2024, 1, 1),
     DaysFromCivil(2024, 5, 31), DaysFromCivil(2024, 6, 1)}

ClockTicks ==
    UNION {{d * TicksPerDay + k : k \in 0..(TicksPerDay - 1)} : d \in ClockDays}

\* The values a read of the clock can return when the previous read returned t.
ClockAfter(t) == {u \in ClockTicks : t <= u /\ u <= t + MaxDrift}

(***************************************************************************)
(* pandas building blocks.                                                  *)
(***************************************************************************)
\* DataFrame.empty
Empty(df) == Len(df) = 0

\* One row of items.merge(flowers, left_on='flower_id', right_on='id').
JoinFlower(item, flower) ==
    [order_id |-> item.order_id, flower_id |-> item.flower_id,
     quantity |-> item.quantity, name |-> flower.name, price |-> flower.price]

\* One row of df.merge(orders, left_on='order_id', right_on='id').
JoinOrder(row, order) ==
    [order_id |-> row.order_id, flower_id |-> row.flower_id,
     quantity |-> row.quantity, name |-> row.name, price |-> row.price,
     user_id |-> order.user_id, ordered_at |-> order.ordered_at,
     total_price |-> order.total_price]

\* Inner join: the left rows in order, each with every right row whose key matches.
RECURSIVE MergeFlowers(_, _)
MergeFlowers(items, flowers) ==
    IF items = <<>> THEN <<>>
    ELSE LET l == Head(items)
             m == SelectSeq(flowers, LAMBDA f : f.id = l.flower_id)
         IN  [i \in 1..Len(m) |-> JoinFlower(l, m[i])]
             \o MergeFlowers(Tail(items), flowers)

RECURSIVE MergeOrders(_, _)
MergeOrders(rows, orders) ==
    IF rows = <<>> THEN <<>>
    ELSE LET l == Head(rows)
             m == SelectSeq(orders, LAMBDA o : o.id = l.order_id)
         IN  [i \in 1..Len(m) |-> JoinOrder(l, m[i])]
             \o MergeOrders(Tail(rows), orders)

\* df[col] = pd.to_datetime(df[col]) on the column ordered_at.
ConvertOrderedAt(df) ==
    [i \in 1..Len(df) |-> [df[i] EXCEPT !.ordered_at = ToDatetime(@)]]

\* df.groupby(key)[val].sum(): a series indexed by the keys present.
GroupSum(df, key, val) ==
    [k \in Range(Col(df, key)) |->
        SumSeq(Col(SelectSeq(df, LAMBDA r : r[key] = k), val))]

\* Mutant of IdxMaxName: idxmin in place of idxmax.
MutIdxMaxName(series) ==
    LET low == {k \in DOMAIN series : \A j \in DOMAIN series : series[k] <= series[j]}
    IN  CHOOSE k \in low : \A j \in low : j = k \/ StrLess(k, j)

\* Series.idxmax() of a series indexed by text, in groupby's sorted key order:
\* the first key, in that order, that holds the maximum.
IdxMaxName(series) ==
    LET top == {k \in DOMAIN series : \A j \in DOMAIN series : series[j] <= series[k]}
    IN  CHOOSE k \in top : \A j \in top : j = k \/ StrLess(k, j)

\* Series.sort_values(ascending=False) with the default kind='quicksort', which is
\* not a stable sort: every ordering of the index with non-increasing values is a
\* possible outcome.
RECURSIVE SortValuesDesc(_, _)
SortValuesDesc(series, keys) ==
    IF keys = {} THEN {<<>>}
    ELSE LET top == {k \in keys : \A j \in keys : series[j] <= series[k]}
         IN  UNION {{<<k>> \o rest : rest \in SortValuesDesc(series, keys \ {k})}
                    : k \in top}

\* .head(n)
HeadN(s, n) == SubSeq(s, 1, Min2(n, Len(s)))

(***************************************************************************)
(* analytics.get_sales_analytics                                            *)
(***************************************************************************)
\* Mutant of SalesEmptyInput: the guard forgets the items frame.
MutSalesEmptyInput == Empty(df_orders)

SalesEmptyInput == Empty(df_orders) \/ Empty(df_order_items)

\* A Python list and a dict: both keep their entries in order.
List(s) == [type |-> "list", items |-> s]
Dict(s) == [type |-> "dict", items |-> s]

ZeroSales ==
    [most_sold_flower |-> None, daily_revenue |-> 0, monthly_revenue |-> 0,
     top_customers |-> List(<<>>)]

SalesJoin ==
    ConvertOrderedAt(MergeOrders(MergeFlowers(df_order_items, df_flowers), df_orders))

MostSold(df) ==
    IF ~Empty(df) THEN IdxMaxName(GroupSum(df, "name", "quantity")) ELSE None

DailyRev(df, today) ==
    IF ~Empty(df)
    THEN SumSeq(Col(SelectSeq(df, LAMBDA r : DateOf(r.ordered_at.t) = today),
                    "total_price"))
    ELSE 0

MonthlyRev(df, this_month, this_year) ==
    IF ~Empty(df)
    THEN SumSeq(Col(SelectSeq(df, LAMBDA r : MonthOf(r.ordered_at.t) = this_month
                                             /\ YearOf(r.ordered_at.t) = this_year),
                    "total_price"))
    ELSE 0

\* The possible values of top_customers: to_dict() keeps the sorted order.
TopCustomers(df) ==
    LET totals == GroupSum(df, "user_id", "total_price")
    IN  {Dict([i \in 1..Len(s) |-> <<s[i], totals[s[i]]>>]) :
            s \in {HeadN(o, TOP_CUSTOMERS) : o \in SortValuesDesc(totals, DOMAIN totals)}}

GetSalesAnalytics ==
    /\ IF SalesEmptyInput
       THEN /\ result' = ZeroSales
            /\ reads' = <<>>
            /\ now' = now
       ELSE \E t1 \in ClockAfter(now) :
            \E t2 \in ClockAfter(t1) :
            \E t3 \in ClockAfter(t2) :
            \E top \in TopCustomers(SalesJoin) :
               /\ result' =
                    [most_sold_flower |-> MostSold(SalesJoin),
                     daily_revenue |-> DailyRev(SalesJoin, DateOf(t1)),
                     monthly_revenue |-> MonthlyRev(SalesJoin, MonthOf(t2), YearOf(t3)),
                     top_customers |-> top]
               /\ reads' = <<t1, t2, t3>>
               /\ now' = t3
    /\ called' = <<"get_sales_analytics">>
    /\ UNCHANGED <<df_orders, df_order_items, df_flowers>>

\* Time passes between two calls.
Tick ==
    /\ now + 1 \in ClockTicks
    /\ now' = now + 1
    /\ UNCHANGED <<df_orders, df_order_items, df_flowers, called, reads, result>>

(***************************************************************************)
(* analytics.predict_demand                                                 *)
(***************************************************************************)
\* groupby(ordered_at.dt.date)['total_price'].sum().reset_index(): one row per
\* distinct date, in ascending date order.
RECURSIVE SortedDates(_)
SortedDates(S) ==
    IF S = {} THEN <<>>
    ELSE LET d == CHOOSE x \in S : \A y \in S : x <= y
         IN  <<d>> \o SortedDates(S \ {d})

DailySales(orders) ==
    LET dates == SortedDates({DateOf(orders[i].ordered_at.t) : i \in 1..Len(orders)})
    IN  [j \in 1..Len(dates) |->
            [ds |-> dates[j],
             y  |-> SumSeq(Col(SelectSeq(orders,
                        LAMBDA o : DateOf(o.ordered_at.t) = dates[j]), "total_price"))]]

\* LinearRegression().fit on day_num = 0..k-1 and predict at x: the least-squares
\* line a*x + b, as the exact fraction num/den with den > 0.
Predict(daily_sales, x) ==
    LET k   == Len(daily_sales)
        sx  == SumSeq([j \in 1..k |-> j - 1])
        sxx == SumSeq([j \in 1..k |-> (j - 1) * (j - 1)])
        sy  == SumSeq([j \in 1..k |-> daily_sales[j].y])
        sxy == SumSeq([j \in 1..k |-> (j - 1) * daily_sales[j].y])
        dd  == k * sxx - sx * sx
    IN  [num |-> (k * sxy - sx * sy) * (k * x - sx) + sy * dd, den |-> k * dd]

\* max(0, float(pred))
Clamp(pred) == IF pred.num < 0 THEN [num |-> 0, den |-> 1] ELSE pred

\* forecast_date.strftime('%Y-%m-%d'): the year, month and day fields of the text.
Strftime(day) == CivilFromDays(day)

\* Mutant of ForecastDate: the first forecast falls on the last observed date.
MutForecastDate(last_date, i) == last_date + i

\* last_date + timedelta(days=i+1)
ForecastDate(last_date, i) == last_date + (i + 1)

TooFewPoints(daily_sales) == Len(daily_sales) < MIN_POINTS

Forecast(daily_sales) ==
    LET k == Len(daily_sales)
        last_date == daily_sales[k].ds
    IN  [n \in 1..FORECAST_DAYS |->
            [date |-> Strftime(ForecastDate(last_date, n - 1)),
             predicted_demand |-> Clamp(Predict(daily_sales, k + (n - 1)))]]

PredictDemand ==
    /\ IF Empty(df_orders)
       THEN /\ result' = List(<<>>)
            /\ UNCHANGED df_orders
       ELSE /\ df_orders' = ConvertOrderedAt(df_orders)
            /\ result' = IF TooFewPoints(DailySales(df_orders'))
                         THEN List(<<>>)
                         ELSE List(Forecast(DailySales(df_orders')))
    /\ called' = <<"predict_demand">>
    /\ reads' = <<>>
    /\ UNCHANGED <<df_order_items, df_flowers, now>>

(***************************************************************************)
(* recommender.get_recommendations                                          *)
(***************************************************************************)
seasonal_map ==
    << <<{12, 1, 2},
         << <<80, 111, 105, 110, 115, 101, 116, 116, 105, 97>>,
            <<87, 105, 110, 116, 101, 114, 32, 74, 97, 115, 109, 105, 110, 101>>,
            <<65, 109, 97, 114, 121, 108, 108, 105, 115>> >> >>,
       <<{3, 4, 5},
         << <<84, 117, 108, 105, 112>>,
            <<68, 97, 102, 102, 111, 100, 105, 108>>,
            <<80, 101, 111, 110, 121>> >> >>,
       <<{6, 7, 8},
         << <<83, 117, 110, 102, 108, 111, 119, 101, 114>>,
            <<82, 111, 115, 101>>,
            <<76, 97, 118, 101, 110, 100, 101, 114>> >> >>,
       <<{9, 10, 11},
         << <<67, 104, 114, 121, 115, 97, 110, 116, 104, 101, 109, 117, 109>>,
            <<77, 97, 114, 105, 103, 111, 108, 100>>,
            <<68, 97, 104, 108, 105, 97>> >> >> >>

\* The loop over seasonal_map.items(): the names of the first entry holding month.
CurrentSeasonFlowers(month) ==
    LET hits == {e \in 1..Len(seasonal_map) : month \in seasonal_map[e][1]}
    IN  IF hits = {} THEN <<>>
        ELSE seasonal_map[CHOOSE e \in hits : \A h \in hits : e <= h][2]

LowerChar(c) == IF 65 <= c /\ c <= 90 THEN c + 32 ELSE c
Lower(text) == [i \in 1..Len(text) |-> LowerChar(text[i])]

\* A search for the literal text pat anywhere in text, ignoring case.
Search(text, pat) ==
    \E i \in 1..(Len(text) - Len(pat) + 1) :
        SubSeq(Lower(text), i, i + Len(pat) - 1) = Lower(pat)

\* Series.str.contains('|'.join(names), case=False, na=False) for one value: the
\* alternation of the names; the empty pattern matches every text.
StrContains(text, names) ==
    IF names = <<>> THEN TRUE
    ELSE \E n \in 1..Len(names) : Search(text, names[n])

Seasonal(flowers, month) ==
    SelectSeq(flowers, LAMBDA f : StrContains(f.name, CurrentSeasonFlowers(month)))

NoRecommendations ==
    [most_purchased |-> List(<<>>), seasonal |-> List(<<>>), trending |-> List(<<>>)]

RecEmptyInput == Empty(df_orders) \/ Empty(df_flowers)

\* The possible values of groupby('flower_id')['quantity'].sum()
\*   .sort_values(ascending=False).head(3).index.tolist()
TopFlowerIds(items) ==
    LET sums == GroupSum(items, "flower_id", "quantity")
    IN  {HeadN(o, TOP_FLOWERS) : o \in SortValuesDesc(sums, DOMAIN sums)}

\* df_flowers[df_flowers['id'].isin(ids)][['id', 'name', 'price']].to_dict('records')
FlowerRecords(flowers, ids) ==
    LET sel == SelectSeq(flowers, LAMBDA f : f.id \in Range(ids))
    IN  [i \in 1..Len(sel) |->
            [id |-> sel[i].id, name |-> sel[i].name, price |-> sel[i].price]]

\* df_order_items[df_order_items['order_id'].isin(orders['id'])]
ItemsOf(orders) ==
    SelectSeq(df_order_items, LAMBDA it : it.order_id \in Range(Col(orders, "id")))

\* The possible lists computed from a subset of the orders.
Ranked(orders) ==
    IF ~Empty(orders) /\ ~Empty(ItemsOf(orders))
    THEN {List(FlowerRecords(df_flowers, ids)) : ids \in TopFlowerIds(ItemsOf(orders))}
    ELSE {List(<<>>)}

UserOrders(user_id) == SelectSeq(df_orders, LAMBDA o : o.user_id = user_id)

InWindow(ordered_at, last_7_days) == ToDatetime(ordered_at).t >= last_7_days

RecentOrders(t) ==
    SelectSeq(df_orders,
              LAMBDA o : InWindow(o.ordered_at, t - WINDOW_DAYS * TicksPerDay))

GetRecommendations(user_id) ==
    /\ IF RecEmptyInput
       THEN /\ result' = NoRecommendations
            /\ reads' = <<>>
            /\ now' = now
       ELSE \E t1 \in ClockAfter(now) :
            \E t2 \in ClockAfter(t1) :
            \E mp \in Ranked(UserOrders(user_id)) :
            \E tr \in Ranked(RecentOrders(t1)) :
               /\ result' = [most_purchased |-> mp,
                             seasonal |-> List(Seasonal(df_flowers, MonthOf(t2))),
                             trending |-> tr]
               /\ reads' = <<t1, t2>>
               /\ now' = t2
    /\ called' = <<"get_recommendations", user_id>>
    /\ UNCHANGED <<df_orders, df_order_items, df_flowers>>

(***************************************************************************)
(* Snapshots: the frames get_dataframes hands to the core.  Order and       *)
(* flower ids are unique (primary keys); an item may name an order or a     *)
(* flower that is not in the snapshot.  total_price is a column of Orders   *)
(* (predict_demand reads it there), so the join takes it from the order.    *)
(***************************************************************************)
Stored(kind, t) == IF kind = "str" THEN FormatTs(t) ELSE Ts(t)

OrderFrames(n, users, times, prices, kinds) ==
    UNION {{[i \in 1..k |->
                [id |-> i, user_id |-> f[i][1], ordered_at |-> Stored(kind, f[i][2]),
                 total_price |-> f[i][3]]]
            : f \in [1..k -> users \X times \X prices], kind \in kinds}
           : k \in 0..n}

ItemFrames(n, order_ids, flower_ids, quantities) ==
    UNION {{[i \in 1..k |->
                [order_id |-> f[i][1], flower_id |-> f[i][2], quantity |-> f[i][3]]]
            : f \in [1..k -> order_ids \X flower_ids \X quantities]}
           : k \in 0..n}

FlowerFrames(n, names) ==
    UNION {{[i \in 1..k |-> [id |-> i, name |-> f[i], price |-> i]]
            : f \in [1..k -> names]}
           : k \in 0..n}

Rose == <<82, 111, 115, 101>>
Tulip == <<84, 117, 108, 105, 112>>
TulipMix == <<84, 117, 108, 105, 112, 32, 77, 105, 120>>
RedRoseBouquet ==
    <<82, 101, 100, 32, 82, 111, 115, 101, 32, 66, 111, 117, 113, 117, 101, 116>>
Lily == <<76, 105, 108, 121>>

\* The last tick of 2023-12-31 and the first of 2024-01-01.
YearEnd == DaysFromCivil(2024, 1, 1) * TicksPerDay - 1
SalesTimes == {YearEnd, YearEnd + 1}

NoCall ==
    /\ called = <<"none">>
    /\ reads = <<>>
    /\ result = <<>>

\* The last tick of 2024-05-31: the next tick is in June, another season.
SeasonEnd == DaysFromCivil(2024, 6, 1) * TicksPerDay - 1
Window == WINDOW_DAYS * TicksPerDay
RecTimes == {SeasonEnd - Window - 1, SeasonEnd - Window, SeasonEnd + 2 * TicksPerDay}

\* Order times with two orders on one day, a gap of days, and a leap day ahead.
ForecastTimes ==
    {DaysFromCivil(2024, 2, 20) * TicksPerDay,
     DaysFromCivil(2024, 2, 20) * TicksPerDay + 1,
     DaysFromCivil(2024, 2, 21) * TicksPerDay,
     DaysFromCivil(2024, 2, 25) * TicksPerDay}

\* Sales snapshots that vary the items and the catalog.
InitSales ==
    /\ df_orders \in OrderFrames(1, {1}, {YearEnd}, {1}, {"datetime64"})
    /\ df_order_items \in ItemFrames(MaxItems, {1, 2}, {1, 2, 3}, Quantities)
    /\ df_flowers \in FlowerFrames(2, {Rose, Tulip})
    /\ now = YearEnd + TicksPerDay - 1
    /\ NoCall

\* Sales snapshots that vary the orders: their users, times and totals.
InitRevenue ==
    /\ df_orders \in OrderFrames(2, Users, SalesTimes, Prices, {"datetime64"})
    /\ df_order_items \in ItemFrames(MaxItems, {1, 2, 3}, {1}, {1})
    /\ df_flowers \in FlowerFrames(1, {Rose})
    /\ now = YearEnd
    /\ NoCall

\* Orders only, stored as text or as timestamps.
InitForecast ==
    /\ df_orders \in OrderFrames(MaxOrders, {1}, ForecastTimes, Prices,
                                 {"str", "datetime64"})
    /\ df_order_items = <<>>
    /\ df_flowers = <<>>
    /\ now = YearEnd
    /\ NoCall

\* Recommendation snapshots: orders before, at the start of and after the window.
InitRecommend ==
    /\ df_orders \in OrderFrames(2, Users, RecTimes, {1}, {"str"})
    /\ df_order_items \in ItemFrames(1, {1, 2, 3}, {1, 2}, {1})
    /\ df_flowers \in FlowerFrames(2, {RedRoseBouquet, TulipMix})
    /\ now = SeasonEnd
    /\ NoCall

\* One recent order of user 1 with at most one item for each of four flower ids,
\* and a catalog that holds the first ids only.  The clock shows its last value.
InitRank ==
    /\ df_orders = <<[id |-> 1, user_id |-> 1, ordered_at |-> Ts(SeasonEnd),
                      total_price |-> 1]>>
    /\ \E q \in [1..4 -> 0..4] :
          df_order_items =
             SelectSeq([i \in 1..4 |-> [order_id |-> 1, flower_id |-> i,
                                        quantity |-> q[i]]],
                       LAMBDA it : it.quantity > 0)
    /\ df_flowers \in FlowerFrames(4, {Lily})
    /\ now = SeasonEnd + TicksPerDay
    /\ NoCall

\* Small snapshots on which every operation is called.
Init ==
    /\ df_orders \in OrderFrames(1, {1}, SalesTimes, {1}, {"str", "datetime64"})
    /\ df_order_items \in ItemFrames(1, {1, 2}, {1, 2}, {1})
    /\ df_flowers \in FlowerFrames(1, {Rose})
    /\ now = YearEnd
    /\ NoCall

Recommend == \E user_id \in Users : GetRecommendations(user_id)

Next == GetSalesAnalytics \/ PredictDemand \/ Recommend \/ Tick

Spec == Init /\ [][Next]_vars

NextSales == GetSalesAnalytics \/ Tick

SpecSales == InitSales /\ [][NextSales]_vars

SpecRevenue == InitRevenue /\ [][NextSales]_vars

NextForecast == PredictDemand \/ Tick

SpecForecast == InitForecast /\ [][NextForecast]_vars

NextRecommend == Recommend \/ Tick

SpecRecommend == InitRecommend /\ [][NextRecommend]_vars

NextRank == GetSalesAnalytics \/ Recommend

SpecRank == InitRank /\ [][NextRank]_vars

(***************************************************************************)
(* What the claims speak of, stated on the snapshots themselves.            *)
(***************************************************************************)
\* The items whose order_id and flower_id both resolve (the inner join's rows).
JoinedItems ==
    {i \in 1..Len(df_order_items) :
        /\ \E f \in 1..Len(df_flowers) : df_flowers[f].id = df_order_items[i].flower_id
        /\ \E o \in 1..Len(df_orders) : df_orders[o].id = df_order_items[i].order_id}

FlowerOfItem(i) ==
    df_flowers[CHOOSE f \in 1..Len(df_flowers) :
                   df_flowers[f].id = df_order_items[i].flower_id]

OrderOfItem(i) ==
    df_orders[CHOOSE o \in 1..Len(df_orders) :
                  df_orders[o].id = df_order_items[i].order_id]

RECURSIVE QtyOver(_)
QtyOver(S) ==
    IF S = {} THEN 0
    ELSE LET i == CHOOSE x \in S : TRUE
         IN  df_order_items[i].quantity + QtyOver(S \ {i})

JoinedNames == {FlowerOfItem(i).name : i \in JoinedItems}
SoldByName(n) == QtyOver({i \in JoinedItems : FlowerOfItem(i).name = n})
SoldById(id) == QtyOver({i \in JoinedItems : df_order_items[i].flower_id = id})

SalesCalled == called = <<"get_sales_analytics">>

(***************************************************************************)
(* C1: get_sales_analytics on a snapshot whose Orders or OrderItems is      *)
(* empty returns exactly most_sold_flower = None, daily_revenue = 0,        *)
(* monthly_revenue = 0 and top_customers = [] (the empty list), whatever    *)
(* Flowers holds.                                                           *)
(***************************************************************************)
C1_EmptyInputZeroResult ==
    (SalesCalled /\ (Len(df_orders) = 0 \/ Len(df_order_items) = 0))
    => result = [most_sold_flower |-> None, daily_revenue |-> 0,
                 monthly_revenue |-> 0,
                 top_customers |-> [type |-> "list", items |-> <<>>]]

\* Orders and Flowers hold rows, OrderItems is empty, and the call has returned.
C1_Witness ==
    /\ SalesCalled
    /\ Len(df_order_items) = 0
    /\ Len(df_orders) > 0
    /\ Len(df_flowers) > 0
    /\ result.top_customers = [type |-> "list", items |-> <<>>]

(***************************************************************************)
(* C2: when the joined item set is non-empty, most_sold_flower is a name of *)
(* the joined set whose summed quantity is at least the summed quantity of  *)
(* every name and of every flower id of the joined set; when the joined set *)
(* is empty, most_sold_flower is None.                                      *)
(***************************************************************************)
C2_MostSoldIsMaximal ==
    SalesCalled =>
        IF JoinedItems = {}
        THEN result.most_sold_flower = None
        ELSE /\ result.most_sold_flower \in JoinedNames
             /\ \A n \in JoinedNames :
                    SoldByName(n) <= SoldByName(result.most_sold_flower)
             /\ \A i \in JoinedItems :
                    SoldById(df_order_items[i].flower_id)
                        <= SoldByName(result.most_sold_flower)

\* Two names were sold in different quantities, and the larger one is returned.
C2_Witness ==
    /\ SalesCalled
    /\ JoinedItems /= {}
    /\ \E n \in JoinedNames :
           /\ n /= result.most_sold_flower
           /\ SoldByName(n) < SoldByName(result.most_sold_flower)

RECURSIVE PriceOver(_)
PriceOver(S) ==
    IF S = {} THEN 0
    ELSE LET i == CHOOSE x \in S : TRUE
         IN  OrderOfItem(i).total_price + PriceOver(S \ {i})

JoinedUsers == {OrderOfItem(i).user_id : i \in JoinedItems}
UserTotal(u) == PriceOver({i \in JoinedItems : OrderOfItem(i).user_id = u})

\* The users by total descending and, among equal totals, by ascending user_id.
RECURSIVE RankUsers(_)
RankUsers(S) ==
    IF S = {} THEN <<>>
    ELSE LET u == CHOOSE x \in S : \A y \in S :
                      \/ UserTotal(y) < UserTotal(x)
                      \/ UserTotal(y) = UserTotal(x) /\ x <= y
         IN  <<u>> \o RankUsers(S \ {u})

C4_TopCustomersRanked ==
    SalesCalled =>
        LET r == RankUsers(JoinedUsers)
            n == IF Len(r) < 5 THEN Len(r) ELSE 5
        IN  /\ result.top_customers.items = [i \in 1..n |-> <<r[i], UserTotal(r[i])>>]
            /\ \A i \in 1..Len(result.top_customers.items) :
                   result.top_customers.items[i][2] <= PriceOver(JoinedItems)

(***************************************************************************)
(* C5: predict_demand returns the empty sequence exactly when Orders holds  *)
(* fewer than 2 distinct order dates; otherwise 7 points, the i-th (from 0) *)
(* dated i+1 calendar days after the latest order date, each with           *)
(* predicted_demand >= 0.                                                   *)
(***************************************************************************)
ForecastCalled == called = <<"predict_demand">>

ObservedDates ==
    {DateOf(ToDatetime(df_orders[i].ordered_at).t) : i \in 1..Len(df_orders)}

LatestDate == CHOOSE d \in ObservedDates : \A e \in ObservedDates : e <= d

C5_ForecastShape ==
    ForecastCalled =>
        IF Cardinality(ObservedDates) < 2
        THEN result.items = <<>>
        ELSE /\ Len(result.items) = 7
             /\ \A i \in 0..6 :
                   LET p == result.items[i + 1]
                   IN  /\ DaysFromCivil(p.date.year, p.date.month, p.date.day)
                             = LatestDate + i + 1
                       /\ p.date.month \in 1..12
                       /\ p.date.day \in 1..31
                       /\ p.predicted_demand.num >= 0
                       /\ p.predicted_demand.den > 0

\* A forecast from dates with a gap between them, reaching into the next month,
\* with a prediction above 0 and one reported as 0.
C5_Witness ==
    /\ ForecastCalled
    /\ Len(result.items) = 7
    /\ \E d \in ObservedDates : d < LatestDate - 1 /\ (d + 1) \notin ObservedDates
    /\ result.items[1].date.month /= result.items[7].date.month
    /\ \E i \in 1..7 : result.items[i].predicted_demand.num > 0
    /\ \E i \in 1..7 : result.items[i].predicted_demand.num = 0

(***************************************************************************)
(* C6: the seasonal list holds exactly the Flowers whose name contains,     *)
(* ignoring case, a name of the catalog of the current month, for every     *)
(* user_id and every content of Orders and OrderItems, an empty Orders      *)
(* snapshot included.                                                       *)
(***************************************************************************)
RecCalled == called[1] = "get_recommendations"

SeasonNames(month) ==
    CASE month \in {12, 1, 2} ->
           {<<80, 111, 105, 110, 115, 101, 116, 116, 105, 97>>,
            <<87, 105, 110, 116, 101, 114, 32, 74, 97, 115, 109, 105, 110, 101>>,
            <<65, 109, 97, 114, 121, 108, 108, 105, 115>>}
      [] month \in {3, 4, 5} ->
           {Tulip, <<68, 97, 102, 102, 111, 100, 105, 108>>, <<80, 101, 111, 110, 121>>}
      [] month \in {6, 7, 8} ->
           {<<83, 117, 110, 102, 108, 111, 119, 101, 114>>, Rose,
            <<76, 97, 118, 101, 110, 100, 101, 114>>}
      [] month \in {9, 10, 11} ->
           {<<67, 104, 114, 121, 115, 97, 110, 116, 104, 101, 109, 117, 109>>,
            <<77, 97, 114, 105, 103, 111, 108, 100>>,
            <<68, 97, 104, 108, 105, 97>>}

\* The moment the call read the clock for the window, and for the month.
WindowRead == IF reads = <<>> THEN now ELSE reads[1]
MonthRead == IF reads = <<>> THEN now ELSE reads[2]

C6_SeasonalIsCatalogFilter ==
    RecCalled =>
        Range(result.seasonal.items) =
            {df_flowers[i] : i \in
                {j \in 1..Len(df_flowers) :
                    \E n \in SeasonNames(MonthOf(MonthRead)) :
                        Search(df_flowers[j].name, n)}}

(***************************************************************************)
(* C7: trending is computed only from orders whose ordered_at lies between  *)
(* now - 7 days and now, both included: every trending flower is the flower *)
(* of an item of such an order, and trending is empty when there is none.   *)
(***************************************************************************)
OrdersInWindow ==
    {o \in 1..Len(df_orders) :
        LET t == ToDatetime(df_orders[o].ordered_at).t
        IN  WindowRead - Window <= t /\ t <= WindowRead}

ItemsOfOrders(O) ==
    {i \in 1..Len(df_order_items) :
        \E o \in O : df_orders[o].id = df_order_items[i].order_id}

C7_TrendingWithinWindow ==
    RecCalled =>
        /\ \A k \in 1..Len(result.trending.items) :
              \E i \in ItemsOfOrders(OrdersInWindow) :
                  df_order_items[i].flower_id = result.trending.items[k].id
        /\ (OrdersInWindow = {} => result.trending.items = <<>>)

(***************************************************************************)
(* C8: most_purchased and trending each hold exactly the first min(3, n) of *)
(* the n purchased flowers ranked by summed quantity descending and, among  *)
(* equal sums, by ascending flower id.  Stated for snapshots in which every *)
(* item's flower is in the catalog and no order is later than now.          *)
(***************************************************************************)
FlowerQty(S, f) == QtyOver({i \in S : df_order_items[i].flower_id = f})

RECURSIVE RankFlowers(_, _)
RankFlowers(S, ids) ==
    IF ids = {} THEN <<>>
    ELSE LET f == CHOOSE x \in ids : \A y \in ids :
                      \/ FlowerQty(S, y) < FlowerQty(S, x)
                      \/ FlowerQty(S, y) = FlowerQty(S, x) /\ x <= y
         IN  <<f>> \o RankFlowers(S, ids \ {f})

TopThree(S) ==
    LET r == RankFlowers(S, {df_order_items[i].flower_id : i \in S})
    IN  {r[k] : k \in 1..(IF Len(r) < 3 THEN Len(r) ELSE 3)}

OrdersOfUser(u) == {o \in 1..Len(df_orders) : df_orders[o].user_id = u}

IdsOf(list) == {list.items[k].id : k \in 1..Len(list.items)}

CatalogIds == {df_flowers[f].id : f \in 1..Len(df_flowers)}

C8_TopThreeByQuantityThenId ==
    (/\ RecCalled
     /\ reads /= <<>>
     /\ \A i \in 1..Len(df_order_items) : df_order_items[i].flower_id \in CatalogIds
     /\ \A o \in 1..Len(df_orders) :
            ToDatetime(df_orders[o].ordered_at).t <= WindowRead)
    => /\ IdsOf(result.most_purchased) = TopThree(ItemsOfOrders(OrdersOfUser(called[2])))
       /\ IdsOf(result.trending) = TopThree(ItemsOfOrders(OrdersInWindow))

(***************************************************************************)
(* C9: an item whose order or flower is not in the snapshot takes part in   *)
(* no aggregation.  get_sales_analytics: the most sold name, the revenues   *)
(* and the customers' totals come from the joined items alone.              *)
(* get_recommendations: the ranking is over the flowers of the catalog, so  *)
(* most_purchased and trending hold min(3, k) flowers when k flowers of the *)
(* catalog were purchased.  Stated for purchases without equal sums, where  *)
(* the order among equal sums plays no part.                                *)
(***************************************************************************)
PurchasedInCatalog(S) == {df_order_items[i].flower_id : i \in S} \cap CatalogIds

NoEqualSums(S) ==
    \A i, j \in S :
        df_order_items[i].flower_id /= df_order_items[j].flower_id
            => FlowerQty(S, df_order_items[i].flower_id)
                   /= FlowerQty(S, df_order_items[j].flower_id)

AtMostThree(k) == IF k < 3 THEN k ELSE 3

C9_UnresolvedItemsTakeNoPlace ==
    /\ SalesCalled =>
          /\ result.most_sold_flower \in JoinedNames \cup {None}
          /\ result.daily_revenue <= PriceOver(JoinedItems)
          /\ result.monthly_revenue <= PriceOver(JoinedItems)
          /\ \A k \in 1..Len(result.top_customers.items) :
                LET e == result.top_customers.items[k]
                IN  e[1] \in JoinedUsers /\ e[2] = UserTotal(e[1])
    /\ (RecCalled /\ reads /= <<>> /\ NoEqualSums(1..Len(df_order_items))) =>
          /\ Len(result.most_purchased.items) =
                AtMostThree(Cardinality(PurchasedInCatalog(
                    ItemsOfOrders(OrdersOfUser(called[2])))))
          /\ Len(result.trending.items) =
                AtMostThree(Cardinality(PurchasedInCatalog(
                    ItemsOfOrders(OrdersInWindow))))

(***************************************************************************)
(* C10: no operation changes the snapshots it was given: every step leaves  *)
(* Orders, OrderItems and Flowers, the stored form of ordered_at included,  *)
(* as they were.                                                            *)
(***************************************************************************)
C10_SnapshotsUnchanged ==
    [][/\ df_orders' = df_orders
       /\ df_order_items' = df_order_items
       /\ df_flowers' = df_flowers]_vars

=============================================================================
